---- MODULE Spec2Model ----
(***************************************************************************)
(* unknownutil: predicate combinators (is.ts) and the modifier algebra     *)
(* as.Optional / as.Required / as.Readonly (as.ts).                         *)
(*                                                                         *)
(* Predicates are function objects.  Reference identity is observable, so  *)
(* every function object lives in `heap` and is named by its index.  An    *)
(* object records the closure it runs (code and captured variables), the   *)
(* `optional` / `readonly` facets and the factory metadata attached to it. *)
(***************************************************************************)
EXTENDS Integers, Sequences, FiniteSets, TLC

VARIABLES heap, call

vars == <<heap, call>>

(* Bounds of the model. *)
MaxHeap == 4
MaxLen == 3
MaxPreds == 2

(***************************************************************************)
(* JavaScript values under test.  Property names are ordinary names that   *)
(* Object.prototype does not define, so reading a name an object does not  *)
(* own yields undefined.                                                   *)
(***************************************************************************)
Keys == <<"a", "b">>

KeySet == {Keys[i] : i \in 1..Len(Keys)}

Undefined == [t |-> "undefined"]

Null == [t |-> "null"]

Num0 == [t |-> "number", n |-> 0]

StrS == [t |-> "string", s |-> "s"]

\* A slot of an object that holds no own property.
Absent == [t |-> "absent"]

Scalars == {Undefined, Null, Num0, StrS}

Elems == {Undefined, Num0, StrS}

Arr(es) == [t |-> "array", e |-> es]

Obj(o) == [t |-> "object", o |-> o]

Arrays == UNION {{Arr(es) : es \in [1..n -> Elems]} : n \in 0..MaxLen}

Objects == {Obj(o) : o \in [KeySet -> Elems \cup {Absent}]}

Values == Scalars \cup Arrays \cup Objects

TypeOf(x) ==
  CASE x.t = "undefined" -> "undefined"
    [] x.t = "number" -> "number"
    [] x.t = "string" -> "string"
    [] OTHER -> "object"

\* What a property access evaluates to when it raises.
TypeError == [t |-> "TypeError"]

\* x[i], i counted from 1 here: raises on null and undefined, undefined past
\* the end of an array and on a value that has no such element.
Index(x, i) ==
  IF x.t \in {"undefined", "null"} THEN TypeError
  ELSE IF x.t = "array" THEN (IF i >= 1 /\ i <= Len(x.e) THEN x.e[i] ELSE Undefined)
  ELSE IF x.t = "string" /\ i = 1 THEN x
  ELSE Undefined

\* x[k], k one of Keys: raises on null and undefined, undefined when x has no
\* own property k.
Get(x, k) ==
  IF x.t \in {"undefined", "null"} THEN TypeError
  ELSE IF x.t = "object" THEN (IF x.o[k] = Absent THEN Undefined ELSE x.o[k])
  ELSE Undefined

\* Object.keys(x), in the order of Keys.
RECURSIVE OwnKeysFrom(_, _)
OwnKeysFrom(x, i) ==
  IF i > Len(Keys) THEN <<>>
  ELSE (IF x.o[Keys[i]] = Absent THEN <<>> ELSE <<Keys[i]>>) \o OwnKeysFrom(x, i + 1)

\* Object.keys(x) of a value other than null and undefined: the own keys of
\* a record, the indices of an array or a string, nothing for a number.
ObjectKeys(x) ==
  CASE x.t = "object" -> OwnKeysFrom(x, 1)
    [] x.t = "array" -> [i \in 1..Len(x.e) |-> ToString(i - 1)]
    [] x.t = "string" -> <<"0">>
    [] OTHER -> <<>>

\* x.slice(from) / x.slice(0, to), positions counted from 0 as in the source.
Slice(x, from, to) == Arr(SubSeq(x.e, from + 1, IF to < Len(x.e) THEN to ELSE Len(x.e)))

(***************************************************************************)
(* Function objects.                                                       *)
(***************************************************************************)
\* No factory metadata attached.
NoMeta == [name |-> "", args |-> <<>>]

\* A function object as the function expression creates it: the closure only.
Closure(code, pred, preds, keys) ==
  [code |-> code, pred |-> pred, preds |-> preds, keys |-> keys,
   literals |-> <<>>, optional |-> FALSE, readonly |-> FALSE, meta |-> NoMeta]

\* A new function object enters the heap; its reference is the new index.
Alloc(h, obj) == [heap |-> Append(h, obj), ret |-> Len(h) + 1, threw |-> FALSE]

\* A call that returns an existing reference.
Return(h, p) == [heap |-> h, ret |-> p, threw |-> FALSE]

\* A call that raises (TypeError): nothing is returned.
Throw(h) == [heap |-> h, ret |-> 0, threw |-> TRUE]

\* The function objects of the leaf predicates is.String and is.Number.
StringFn == Closure("isString", 0, <<>>, <<>>)

NumberFn == Closure("isNumber", 0, <<>>, <<>>)

(***************************************************************************)
(* Metadata store and facet checks.  metadata.ts and the isOptional /      *)
(* isReadonly exports that as.ts imports are not among the sources; they   *)
(* are modelled from the design document: attach / lookup-or-absent keyed  *)
(* by the predicate's identity, and facets as boolean flags read by a      *)
(* dedicated check.  as.ts tags a wrapper through the single               *)
(* setPredicateFactoryMetadata call, so attaching the metadata of the      *)
(* optional (readonly) factory is what sets the optional (readonly) facet. *)
(***************************************************************************)
setPredicateFactoryMetadata(fn, name, args) ==
  [fn EXCEPT !.meta = [name |-> name, args |-> args],
             !.optional = @ \/ name = "asOptional",
             !.readonly = @ \/ name = "asReadonly"]

getPredicateFactoryMetadata(h, pred) == h[pred].meta

isOptional(h, pred) == h[pred].optional

isReadonly(h, pred) == h[pred].readonly

(***************************************************************************)
(* Calling a predicate.  Run(h, p, x) is the call h[p](x): res is the      *)
(* boolean returned and n the number of calls the body made to the         *)
(* predicates it closes over (its short-circuit position).                 *)
(***************************************************************************)
RECURSIVE Run(_, _, _)
RECURSIVE every(_, _, _, _)
RECURSIVE some(_, _, _, _)

\* The call returned res.
Result(res, n) == [res |-> res, n |-> n, threw |-> FALSE]

\* The call raised: nothing is returned.
Raise(n) == [res |-> FALSE, n |-> n, threw |-> TRUE]

\* Array.prototype.every over the calls ps[i](xs[i]), from position i: stops
\* at the first call that returns false.
every(h, ps, xs, i) ==
  IF i > Len(ps) THEN Result(TRUE, 0)
  ELSE IF xs[i] = TypeError THEN Raise(0)
  ELSE LET c == Run(h, ps[i], xs[i])
       IN IF c.threw THEN Raise(1)
          ELSE IF ~c.res THEN Result(FALSE, 1)
          ELSE LET r == every(h, ps, xs, i + 1) IN [r EXCEPT !.n = @ + 1]

\* Array.prototype.some over the calls ps[i](xs[i]), from position i: stops at
\* the first call that returns true.
some(h, ps, xs, i) ==
  IF i > Len(ps) THEN Result(FALSE, 0)
  ELSE IF xs[i] = TypeError THEN Raise(0)
  ELSE LET c == Run(h, ps[i], xs[i])
       IN IF c.threw THEN Raise(1)
          ELSE IF c.res THEN Result(TRUE, 1)
          ELSE LET r == some(h, ps, xs, i + 1) IN [r EXCEPT !.n = @ + 1]

isString(x) == TypeOf(x) = "string"

isNumber(x) == TypeOf(x) = "number"

isArray(x) == x.t = "array"

isUndefined(x) == TypeOf(x) = "undefined"

isNullish(x) == x.t = "undefined" \/ x.t = "null"

isRecord(x) ==
  IF isNullish(x) \/ isArray(x) THEN FALSE ELSE TypeOf(x) = "object"

\* (x) => x === undefined || pred(x)
asOptionalFn(h, f, x) ==
  IF x = Undefined THEN Result(TRUE, 0) ELSE [Run(h, f.pred, x) EXCEPT !.n = 1]

\* (x) => pred(x)
asReadonlyFn(h, f, x) == [Run(h, f.pred, x) EXCEPT !.n = 1]

\* (x) => isUndefined(x) || pred(x)
isOptionalOfFn(h, f, x) ==
  IF isUndefined(x) THEN Result(TRUE, 0) ELSE [Run(h, f.pred, x) EXCEPT !.n = 1]

\* (x) => isArray(x) && x.every(pred)
isArrayOfFn(h, f, x) ==
  IF ~isArray(x) THEN Result(FALSE, 0)
  ELSE every(h, [i \in 1..Len(x.e) |-> f.pred], x.e, 1)

\* Faulty variant: the length of x is not compared with the length of predTup.
isTupleOfFn_NoLength(h, f, x) ==
  IF ~isArray(x) THEN Result(FALSE, 0)
  ELSE every(h, f.preds, [i \in 1..Len(f.preds) |-> Index(x, i)], 1)

\* isTupleOf without predElse.
isTupleOfFn(h, f, x) ==
  IF ~isArray(x) \/ Len(x.e) # Len(f.preds) THEN Result(FALSE, 0)
  ELSE every(h, f.preds, [i \in 1..Len(f.preds) |-> Index(x, i)], 1)

\* Faulty variant: predElse is given the whole of x instead of its tail.
isTupleOfRestFn_WholeTail(h, f, x) ==
  IF ~isArray(x) \/ Len(x.e) < Len(f.preds) THEN Result(FALSE, 0)
  ELSE LET head == Slice(x, 0, Len(f.preds))
           r == every(h, f.preds, [i \in 1..Len(f.preds) |-> Index(head, i)], 1)
       IN IF ~r.res THEN r
          ELSE [Run(h, f.pred, x) EXCEPT !.n = r.n + 1]

\* isTupleOf with predElse.
isTupleOfRestFn(h, f, x) ==
  IF ~isArray(x) \/ Len(x.e) < Len(f.preds) THEN Result(FALSE, 0)
  ELSE LET head == Slice(x, 0, Len(f.preds))
           tail == Slice(x, Len(f.preds), Len(x.e))
           r == every(h, f.preds, [i \in 1..Len(f.preds) |-> Index(head, i)], 1)
       IN IF ~r.res THEN r
          ELSE [Run(h, f.pred, tail) EXCEPT !.n = r.n + 1]

\* Faulty variant: a key of predObj that x does not own rejects x.
isObjectOfLooseFn_OwnOnly(h, f, x) ==
  IF ~isRecord(x) THEN Result(FALSE, 0)
  ELSE IF \E i \in 1..Len(f.keys) : x.o[f.keys[i]] = Absent THEN Result(FALSE, 0)
  ELSE every(h, f.preds, [i \in 1..Len(f.keys) |-> Get(x, f.keys[i])], 1)

\* Faulty variant: x is not checked to be a record before its properties are read.
isObjectOfLooseFn_NoRecordCheck(h, f, x) ==
  every(h, f.preds, [i \in 1..Len(f.keys) |-> Get(x, f.keys[i])], 1)

\* The closure isObjectOfLoose returns: for (const k in predObj) ...
isObjectOfLooseFn(h, f, x) ==
  IF ~isRecord(x) THEN Result(FALSE, 0)
  ELSE every(h, f.preds, [i \in 1..Len(f.keys) |-> Get(x, f.keys[i])], 1)

\* Faulty variant: the keys of x are not compared with the keys of predObj.
isObjectOfStrictFn_NoKeyCheck(h, f, x) == isObjectOfLooseFn(h, f, x)

\* The closure isObjectOfStrict returns.
isObjectOfStrictFn(h, f, x) ==
  LET keys == {f.keys[i] : i \in 1..Len(f.keys)}
      r == isObjectOfLooseFn(h, f, x)
  IN IF ~r.res THEN r
     ELSE IF isNullish(x) THEN Raise(r.n)   \* Object.keys(x) raises
     ELSE LET ks == ObjectKeys(x)
          IN Result(Len(ks) <= Cardinality(keys)
                      /\ \A i \in 1..Len(ks) : ks[i] \in keys, r.n)

\* Faulty variant: every in place of some.
isOneOfFn_Every(h, f, x) == every(h, f.preds, [i \in 1..Len(f.preds) |-> x], 1)

\* (x) => preds.some((pred) => pred(x))
isOneOfFn(h, f, x) == some(h, f.preds, [i \in 1..Len(f.preds) |-> x], 1)

\* (x) => preds.every((pred) => pred(x))
isAllOfFn(h, f, x) == every(h, f.preds, [i \in 1..Len(f.preds) |-> x], 1)

\* The closure isRecordOf returns: for (const k in x) ...
isRecordOfFn(h, f, x) ==
  IF ~isRecord(x) THEN Result(FALSE, 0)
  ELSE LET ks == ObjectKeys(x)
       IN every(h, [i \in 1..Len(ks) |-> f.pred], [i \in 1..Len(ks) |-> Get(x, ks[i])], 1)

\* (x) => x === literal
isLiteralOfFn(f, x) == Result(x = f.literals[1], 0)

\* (x) => literals.includes(x)
isLiteralOneOfFn(f, x) ==
  Result(\E i \in 1..Len(f.literals) : f.literals[i] = x, 0)

Run(h, p, x) ==
  LET f == h[p] IN
  CASE f.code = "isString" -> Result(isString(x), 0)
    [] f.code = "isNumber" -> Result(isNumber(x), 0)
    [] f.code = "asOptional" -> asOptionalFn(h, f, x)
    [] f.code = "asReadonly" -> asReadonlyFn(h, f, x)
    [] f.code = "isOptionalOf" -> isOptionalOfFn(h, f, x)
    [] f.code = "isArrayOf" -> isArrayOfFn(h, f, x)
    [] f.code = "isTupleOf" -> isTupleOfFn(h, f, x)
    [] f.code = "isTupleOfRest" -> isTupleOfRestFn(h, f, x)
    [] f.code = "isObjectOfLoose" -> isObjectOfLooseFn(h, f, x)
    [] f.code = "isObjectOfStrict" -> isObjectOfStrictFn(h, f, x)
    [] f.code = "isOneOf" -> isOneOfFn(h, f, x)
    [] f.code = "isAllOf" -> isAllOfFn(h, f, x)
    [] f.code = "isRecordOf" -> isRecordOfFn(h, f, x)
    [] f.code = "isLiteralOf" -> isLiteralOfFn(f, x)
    [] f.code = "isLiteralOneOf" -> isLiteralOneOfFn(f, x)

\* The boolean h[p](x).
Accepts(h, p, x) == Run(h, p, x).res

(***************************************************************************)
(* The factories.  Each returns the heap after the call and the reference  *)
(* returned (or that the call raised).                                     *)
(***************************************************************************)
\* Faulty variant: the facet check is missing, every call wraps.
asOptional_AlwaysWrap(h, pred) ==
  Alloc(h, setPredicateFactoryMetadata(
             Closure("asOptional", pred, <<>>, <<>>), "asOptional", <<pred>>))

\* The earlier as.ts has the same control flow and also defines the property
\* optional: true on the wrapper it returns.
asOptional(h, pred) ==
  IF isOptional(h, pred) THEN Return(h, pred)
  ELSE Alloc(h, setPredicateFactoryMetadata(
                  Closure("asOptional", pred, <<>>, <<>>), "asOptional", <<pred>>))

\* Faulty variant: the optional wrapper is returned as it is, nothing is unwrapped.
asRequired_NoUnwrap(h, pred) == Return(h, pred)

\* Faulty variant: the facet check is missing, whatever metadata is there is unwrapped.
asRequired_NoFacetCheck(h, pred) ==
  LET m == getPredicateFactoryMetadata(h, pred)
  IN IF m = NoMeta THEN Throw(h) ELSE Return(h, m.args[1])

asRequired(h, pred) ==
  IF ~isOptional(h, pred) THEN Return(h, pred)
  ELSE LET m == getPredicateFactoryMetadata(h, pred)
       IN IF m = NoMeta THEN Throw(h)   \* const { args } = undefined
          ELSE Return(h, m.args[1])

\* Faulty variant: the facet check is missing, every call wraps.
asReadonly_AlwaysWrap(h, pred) ==
  Alloc(h, setPredicateFactoryMetadata(
             Closure("asReadonly", pred, <<>>, <<>>), "asReadonly", <<pred>>))

asReadonly(h, pred) ==
  IF isReadonly(h, pred) THEN Return(h, pred)
  ELSE Alloc(h, setPredicateFactoryMetadata(
                  Closure("asReadonly", pred, <<>>, <<>>), "asReadonly", <<pred>>))

isOptionalOf(h, pred) ==
  Alloc(h, [Closure("isOptionalOf", pred, <<>>, <<>>) EXCEPT !.optional = TRUE])

isArrayOf(h, pred) == Alloc(h, Closure("isArrayOf", pred, <<>>, <<>>))

\* predElse = 0 stands for an omitted second argument.
isTupleOf(h, predTup, predElse) ==
  IF predElse = 0 THEN Alloc(h, Closure("isTupleOf", 0, predTup, <<>>))
  ELSE Alloc(h, Closure("isTupleOfRest", predElse, predTup, <<>>))

isObjectOfLoose(keys, preds) == Closure("isObjectOfLoose", 0, preds, keys)

isObjectOfStrict(keys, preds) ==
  [isObjectOfLoose(keys, preds) EXCEPT !.code = "isObjectOfStrict"]

\* predObj is given by its keys, in insertion order, and the predicate of each.
isObjectOf(h, keys, preds, strict) ==
  Alloc(h, IF strict THEN isObjectOfStrict(keys, preds)
           ELSE isObjectOfLoose(keys, preds))

isOneOf(h, preds) == Alloc(h, Closure("isOneOf", 0, preds, <<>>))

isAllOf(h, preds) == Alloc(h, Closure("isAllOf", 0, preds, <<>>))

isRecordOf(h, pred) == Alloc(h, Closure("isRecordOf", pred, <<>>, <<>>))

isLiteralOf(h, literal) ==
  Alloc(h, [Closure("isLiteralOf", 0, <<>>, <<>>) EXCEPT !.literals = <<literal>>])

isLiteralOneOf(h, literals) ==
  Alloc(h, [Closure("isLiteralOneOf", 0, <<>>, <<>>) EXCEPT !.literals = literals])

(***************************************************************************)
(* The program: a caller that builds predicates and calls them.  `call`    *)
(* records the last operation: its argument, what it returned, whether it  *)
(* allocated a function object, whether it raised.                         *)
(***************************************************************************)
NoCall ==
  [op |-> "none", pred |-> 0, x |-> Undefined, ret |-> 0, res |-> FALSE,
   n |-> 0, fresh |-> FALSE, threw |-> FALSE]

\* A factory call on argument pred with outcome out.
Built(op, pred, h, out) ==
  /\ Len(out.heap) <= MaxHeap
  /\ heap' = out.heap
  /\ call' = [NoCall EXCEPT !.op = op, !.pred = pred, !.ret = out.ret,
                            !.fresh = (out.heap # h), !.threw = out.threw]

\* The caller holds the leaf predicate is.String.
Init == heap = <<StringFn>> /\ call = NoCall

AsOptional == \E p \in DOMAIN heap : Built("asOptional", p, heap, asOptional(heap, p))

AsRequired == \E p \in DOMAIN heap : Built("asRequired", p, heap, asRequired(heap, p))

AsReadonly == \E p \in DOMAIN heap : Built("asReadonly", p, heap, asReadonly(heap, p))

IsOptionalOf == \E p \in DOMAIN heap : Built("isOptionalOf", p, heap, isOptionalOf(heap, p))

\* The call heap[p](x).
Called(p, x) ==
  LET r == Run(heap, p, x)
  IN /\ call' = [NoCall EXCEPT !.op = "apply", !.pred = p, !.x = x,
                               !.res = r.res, !.n = r.n, !.threw = r.threw]
     /\ UNCHANGED heap

ApplyScalar == \E p \in DOMAIN heap : \E x \in Scalars : Called(p, x)

Next == AsOptional \/ AsRequired \/ AsReadonly \/ IsOptionalOf \/ ApplyScalar

Spec == Init /\ [][Next]_vars

\* The modifier algebra of as.ts alone.
NextAs == AsOptional \/ AsRequired \/ AsReadonly \/ ApplyScalar

SpecAs == Init /\ [][NextAs]_vars

(***************************************************************************)
(* The combinators.  The caller holds is.String, is.Number,                *)
(* as.Optional(is.String) and is.ArrayOf(is.Number); it builds a compound  *)
(* predicate over them, calls it on a value and drops it, again and again. *)
(***************************************************************************)
Fixture ==
  LET h1 == asOptional(<<StringFn, NumberFn>>, 1).heap
  IN isArrayOf(h1, 2).heap

\* Lists of at most n predicates of heap h.
PredLists(h, n) == UNION {[1..k -> DOMAIN h] : k \in 0..n}

\* The key lists of a descriptor: distinct keys, in any insertion order.
KeyLists ==
  {ks \in UNION {[1..k -> KeySet] : k \in 0..Len(Keys)} :
     \A i, j \in DOMAIN ks : i # j => ks[i] # ks[j]}

BuiltCompound(op, out) ==
  /\ call.op = "none"
  /\ heap' = out.heap
  /\ call' = [NoCall EXCEPT !.op = op, !.ret = out.ret, !.fresh = TRUE]

InitIs == heap = Fixture /\ call = NoCall

IsObjectOf ==
  \E ks \in KeyLists : \E ps \in [DOMAIN ks -> DOMAIN heap] : \E strict \in BOOLEAN :
    BuiltCompound("isObjectOf", isObjectOf(heap, ks, ps, strict))

IsTupleOf ==
  \E ps \in PredLists(heap, MaxPreds) : \E e \in {0} \cup DOMAIN heap :
    BuiltCompound("isTupleOf", isTupleOf(heap, ps, e))

IsOneOf ==
  \E ps \in PredLists(heap, MaxPreds) : BuiltCompound("isOneOf", isOneOf(heap, ps))

IsAllOf ==
  \E ps \in PredLists(heap, MaxPreds) : BuiltCompound("isAllOf", isAllOf(heap, ps))

IsArrayOf == \E p \in DOMAIN heap : BuiltCompound("isArrayOf", isArrayOf(heap, p))

IsRecordOf == \E p \in DOMAIN heap : BuiltCompound("isRecordOf", isRecordOf(heap, p))

IsOptionalOfFixture ==
  \E p \in DOMAIN heap : BuiltCompound("isOptionalOf", isOptionalOf(heap, p))

\* The literals are primitive values.
IsLiteralOf == \E l \in Scalars : BuiltCompound("isLiteralOf", isLiteralOf(heap, l))

IsLiteralOneOf ==
  \E ls \in UNION {[1..k -> Scalars] : k \in 0..MaxPreds} :
    BuiltCompound("isLiteralOneOf", isLiteralOneOf(heap, ls))

\* The predicate just built is called on a value.
ApplyValue ==
  /\ call.op \notin {"none", "apply"}
  /\ \E x \in Values : Called(call.ret, x)

\* The compound predicate is dropped: the caller holds the fixture again.
Drop ==
  /\ call.op = "apply"
  /\ heap' = Fixture
  /\ call' = NoCall

NextIs ==
  \/ IsObjectOf \/ IsTupleOf \/ IsOneOf \/ IsAllOf
  \/ IsArrayOf \/ IsRecordOf \/ IsOptionalOfFixture \/ IsLiteralOf \/ IsLiteralOneOf
  \/ ApplyValue \/ Drop

SpecIs == InitIs /\ [][NextIs]_vars

(***************************************************************************)
(* Properties of the modifier algebra.                                     *)
(***************************************************************************)
\* h[p] and h[q] accept the same scalar values.
SameAcceptance(h, p, q) == \A x \in Scalars : Accepts(h, p, x) = Accepts(h, q, x)

\* C1: as.Optional applied to what as.Optional returned gives back the very
\* same object, allocates no second wrapper and so accepts the same values;
\* and a call of as.Optional on a predicate that carries the optional facet
\* returned its argument without allocating.
C1_OptionalIdempotent ==
  call.op = "asOptional" =>
    /\ asOptional(heap, call.ret) = Return(heap, call.ret)
    /\ SameAcceptance(heap, asOptional(heap, call.ret).ret, call.ret)
    /\ isOptional(heap, call.pred) => call.ret = call.pred /\ ~call.fresh

\* as.Optional was called on a predicate as.Optional had built and returned it.
C1_Witness ==
  /\ call.op = "asOptional"
  /\ heap[call.pred].code = "asOptional"
  /\ call.ret = call.pred
  /\ ~call.fresh

\* C2 as stated: for every predicate p, optional or not, as.Required of
\* as.Optional(p) accepts exactly the values p accepts.
C2_RoundTripAnyPredicate ==
  call.op = "asOptional" =>
    LET r == asRequired(heap, call.ret)
    IN ~r.threw /\ SameAcceptance(heap, r.ret, call.pred)

\* C2 amended: for every predicate p that does not carry the optional facet,
\* as.Required of as.Optional(p) is p itself and so accepts exactly the
\* values p accepts; a call of as.Required on such a wrapper returned the
\* predicate it wraps.
C2_RoundTripNonOptional ==
  /\ call.op = "asOptional" /\ ~isOptional(heap, call.pred) =>
       /\ asRequired(heap, call.ret) = Return(heap, call.pred)
       /\ SameAcceptance(heap, asRequired(heap, call.ret).ret, call.pred)
  /\ call.op = "asRequired" /\ heap[call.pred].code = "asOptional" =>
       /\ ~call.threw
       /\ call.ret = heap[call.pred].pred
       /\ ~isOptional(heap, call.ret)

\* as.Required was called on as.Optional(p), p a readonly predicate without the
\* optional facet, and returned p.
C2_Witness ==
  /\ call.op = "asRequired"
  /\ heap[call.pred].code = "asOptional"
  /\ call.ret = heap[call.pred].pred
  /\ heap[call.ret].code = "asReadonly"

\* C3: as.Required of a predicate that does not carry the optional facet
\* returns that predicate itself, allocates nothing and leaves every object
\* (its metadata included) as it was.
C3_RequiredNoOp ==
  /\ \A p \in DOMAIN heap :
       ~isOptional(heap, p) => asRequired(heap, p) = Return(heap, p)
  /\ call.op = "asRequired" /\ ~isOptional(heap, call.pred) =>
       call.ret = call.pred /\ ~call.fresh /\ ~call.threw

\* as.Required was called on a predicate that carries metadata (of as.Readonly)
\* but not the optional facet.
C3_Witness ==
  /\ call.op = "asRequired"
  /\ heap[call.pred].code = "asReadonly"
  /\ ~isOptional(heap, call.pred)
  /\ call.ret = call.pred

\* C10: as.Readonly returns its argument, allocating nothing, when the
\* argument carries the readonly facet; otherwise it returns a new predicate
\* that accepts exactly the values its argument accepts.  What it returns
\* carries the readonly facet, so as.Readonly of it is the same object.
C10_ReadonlyIdempotent ==
  call.op = "asReadonly" =>
    /\ isReadonly(heap, call.pred) => call.ret = call.pred /\ ~call.fresh
    /\ ~isReadonly(heap, call.pred) =>
         /\ call.fresh /\ call.ret = Len(heap) /\ call.ret # call.pred
         /\ SameAcceptance(heap, call.ret, call.pred)
    /\ isReadonly(heap, call.ret)
    /\ asReadonly(heap, call.ret) = Return(heap, call.ret)

\* as.Readonly was called on a predicate as.Readonly had built and returned it.
C10_Witness ==
  /\ call.op = "asReadonly"
  /\ heap[call.pred].code = "asReadonly"
  /\ call.ret = call.pred
  /\ ~call.fresh

(***************************************************************************)
(* Properties of the combinators.  Each is about the call recorded in      *)
(* `call`: the predicate f that was called, the value x it was called on   *)
(* and the boolean it returned.                                            *)
(***************************************************************************)
Applied(code) == call.op = "apply" /\ heap[call.pred].code = code

\* The own keys of a record x.
OwnKeys(x) == {k \in KeySet : x.o[k] # Absent}

\* x[k] of a record x as the claims describe it: a missing key is undefined.
Field(x, k) == IF k \in OwnKeys(x) THEN x.o[k] ELSE Undefined

DescriptorKeys(f) == {f.keys[i] : i \in DOMAIN f.keys}

\* Every field of record x satisfies the predicate the descriptor gives its key.
FieldsAccepted(f, x) ==
  \A i \in DOMAIN f.keys : Accepts(heap, f.preds[i], Field(x, f.keys[i]))

C5_ObjectOfStrict ==
  Applied("isObjectOfStrict") =>
    LET f == heap[call.pred]
        x == call.x
    IN /\ x.t = "object" /\ OwnKeys(x) \ DescriptorKeys(f) # {} => ~call.res
       /\ x.t = "object" /\ OwnKeys(x) = DescriptorKeys(f) /\ FieldsAccepted(f, x) =>
            call.res

\* {a: is.Number} in strict mode rejected {a: 0, b: 0}.
C5_Witness ==
  /\ Applied("isObjectOfStrict")
  /\ heap[call.pred].keys = <<"a">>
  /\ heap[call.pred].preds = <<2>>
  /\ call.x = Obj([a |-> Num0, b |-> Num0])
  /\ ~call.res

\* C6: in strict mode is.ObjectOf accepts x only if x has as many keys as
\* predObj, also when predObj has optional entries whose keys x omits.
C6_StrictKeyCountEqual ==
  Applied("isObjectOfStrict") /\ call.res =>
    Cardinality(OwnKeys(call.x)) = Cardinality(DescriptorKeys(heap[call.pred]))

\* C7: without a rest predicate is.TupleOf(preds)(x) is true iff x is an array
\* of exactly Len(preds) elements and preds[i] accepts x[i] at every position;
\* on a length mismatch no element predicate is called.
C7_TupleOf ==
  Applied("isTupleOf") =>
    LET f == heap[call.pred]
        x == call.x
    IN /\ call.res = (/\ x.t = "array"
                      /\ Len(x.e) = Len(f.preds)
                      /\ \A i \in DOMAIN f.preds : Accepts(heap, f.preds[i], x.e[i]))
       /\ x.t = "array" /\ Len(x.e) # Len(f.preds) => call.n = 0

\* [as.Optional(is.String)] rejected [] without calling the element predicate.
C7_Witness ==
  /\ Applied("isTupleOf")
  /\ heap[call.pred].preds = <<3>>
  /\ call.x = Arr(<<>>)
  /\ ~call.res
  /\ call.n = 0

\* C8: with a rest predicate R is.TupleOf(preds, R)(x) is true iff x is an
\* array of at least Len(preds) elements, preds[i] accepts x[i] for every
\* position of preds, and R accepts the array of the remaining elements (the
\* empty array when there are none).
C8_TupleOfRest ==
  Applied("isTupleOfRest") =>
    LET f == heap[call.pred]
        x == call.x
    IN call.res = (/\ x.t = "array"
                   /\ Len(x.e) >= Len(f.preds)
                   /\ \A i \in DOMAIN f.preds : Accepts(heap, f.preds[i], x.e[i])
                   /\ Accepts(heap, f.pred,
                              Arr([i \in 1..(Len(x.e) - Len(f.preds)) |->
                                     x.e[Len(f.preds) + i]])))

\* [is.String] with rest is.ArrayOf(is.Number) accepted an array longer than 1.
C8_Witness ==
  /\ Applied("isTupleOfRest")
  /\ heap[call.pred].preds = <<1>>
  /\ heap[call.pred].pred = 4
  /\ call.x.t = "array"
  /\ Len(call.x.e) > 1
  /\ call.res

\* The orders of a list of n predicates.
Orders(n) == {q \in [1..n -> 1..n] : \A i, j \in 1..n : i # j => q[i] # q[j]}

\* The call of f with its list of predicates reordered by q.
Reordered(q) ==
  LET ps == heap[call.pred].preds
  IN Accepts([heap EXCEPT ![call.pred].preds = [i \in DOMAIN ps |-> ps[q[i]]]],
             call.pred, call.x)

\* C9: is.OneOf(preds)(x) is the disjunction and is.AllOf(preds)(x) the
\* conjunction of pred(x) over preds, the empty list included, and the result
\* is the same for every order of preds.
C9_OneOfAllOf ==
  LET ps == heap[call.pred].preds
  IN /\ Applied("isOneOf") =>
          /\ call.res = (\E i \in DOMAIN ps : Accepts(heap, ps[i], call.x))
          /\ \A q \in Orders(Len(ps)) : Reordered(q) = call.res
     /\ Applied("isAllOf") =>
          /\ call.res = (\A i \in DOMAIN ps : Accepts(heap, ps[i], call.x))
          /\ \A q \in Orders(Len(ps)) : Reordered(q) = call.res

\* is.OneOf([is.String, is.Number]) accepted a number: the first predicate
\* rejected it and the second was called.
C9_Witness ==
  /\ Applied("isOneOf")
  /\ heap[call.pred].preds = <<1, 2>>
  /\ call.x = Num0
  /\ call.res
  /\ call.n = 2

(***************************************************************************)
(* Facets and wrapper chains of the modifier algebra.                      *)
(***************************************************************************)
\* C11: the optional and the readonly facet are independent: as.Readonly of a
\* predicate that carries the optional facet, and as.Optional of a predicate
\* that carries the readonly facet, return a predicate that carries both.
C11_FacetsIndependent ==
  /\ call.op = "asReadonly" /\ isOptional(heap, call.pred) =>
       isOptional(heap, call.ret) /\ isReadonly(heap, call.ret)
  /\ call.op = "asOptional" /\ isReadonly(heap, call.pred) =>
       isOptional(heap, call.ret) /\ isReadonly(heap, call.ret)

\* The number of wrappers built by as.Optional on the chain that starts at p
\* and follows the recorded args[0].
RECURSIVE OptionalLayers(_, _)
OptionalLayers(h, p) ==
  LET m == getPredicateFactoryMetadata(h, p)
  IN IF m = NoMeta THEN 0
     ELSE (IF m.name = "asOptional" THEN 1 ELSE 0) + OptionalLayers(h, m.args[1])

\* C12: whatever sequence of as.Optional, as.Readonly and as.Required built
\* it, the wrapper chain of a predicate holds at most one optional layer.
C12_AtMostOneOptionalLayer ==
  \A p \in DOMAIN heap : OptionalLayers(heap, p) <= 1

\* C13: for every predicate q built by as.Optional, as.Readonly and
\* as.Required from the leaf, as.Required(q) does not raise, allocates
\* nothing, does not carry the optional facet and is returned again by
\* as.Required; as.Required of as.Optional(p), p not optional, is p.
C13_RequiredIdempotent ==
  /\ \A q \in DOMAIN heap :
       LET r == asRequired(heap, q)
       IN /\ ~r.threw
          /\ r.heap = heap
          /\ ~isOptional(heap, r.ret)
          /\ asRequired(heap, r.ret) = Return(heap, r.ret)
          /\ heap[q].code = "asOptional" /\ ~isOptional(heap, heap[q].pred) =>
               r.ret = heap[q].pred
  /\ call.op = "asRequired" => ~call.threw /\ ~isOptional(heap, call.ret)

\* as.Required was called on as.Optional(is.String) and returned is.String.
C13_Witness ==
  /\ call.op = "asRequired"
  /\ heap[call.pred].code = "asOptional"
  /\ heap[call.pred].pred = 1
  /\ call.ret = 1
  /\ ~call.fresh

\* C14: a predicate built by a combinator (ArrayOf, TupleOf with or without
\* rest, RecordOf, ObjectOf loose or strict, OneOf, AllOf, LiteralOf,
\* LiteralOneOf, OptionalOf) over total predicates returns a boolean and does
\* not raise, whatever value it is called on.
C14_CombinatorsTotal ==
  /\ call.op = "apply" => ~call.threw /\ call.res \in BOOLEAN
  /\ call.op \notin {"none", "apply"} =>
       \A x \in Values : LET r == Run(heap, call.ret, x)
                         IN ~r.threw /\ r.res \in BOOLEAN

\* A loose object predicate with at least one key was called on null or
\* undefined and returned false.
C14_Witness ==
  /\ call.op = "apply"
  /\ heap[call.pred].code = "isObjectOfLoose"
  /\ Len(heap[call.pred].keys) > 0
  /\ isNullish(call.x)
  /\ ~call.threw
  /\ ~call.res

\* C15: as.Required of a predicate that carries the optional facet and has no
\* factory metadata does not raise and returns a predicate.
C15_RequiredWithoutMetadata ==
  /\ call.op = "asRequired"
  /\ isOptional(heap, call.pred)
  /\ getPredicateFactoryMetadata(heap, call.pred) = NoMeta
  => ~call.threw /\ call.ret \in DOMAIN heap

\* C16: for the leaf is.String, which rejects undefined, and every predicate q
\* built from it by as.Optional, as.Readonly and as.Required: q accepts
\* undefined iff q carries the optional facet, as.Required(q) rejects
\* undefined, and q agrees with the leaf on every defined value.
C16_UndefinedIffOptional ==
  \A q \in DOMAIN heap :
    /\ Accepts(heap, q, Undefined) <=> isOptional(heap, q)
    /\ LET r == asRequired(heap, q)
       IN ~r.threw /\ ~Accepts(heap, r.ret, Undefined)
    /\ \A x \in Scalars \ {Undefined} : Accepts(heap, q, x) = Accepts(heap, 1, x)

====
